---------------------------- MODULE Spec2Model ----------------------------
(***************************************************************************)
(* Model of the detection core of src/backend/api.py: the retry/backoff    *)
(* loop and failure classification of detect_with_openai_vision, the       *)
(* response parser at its end, the HTTP client wrapper                     *)
(* SimpleOpenAIClient.chat_completions_create, and the request handlers    *)
(* that call it (/detect, /v1/detect, /detect-batch).                      *)
(*                                                                         *)
(* Strings are sequences of tokens.  A token is a piece of text that the   *)
(* code never looks inside: a delimiter, a field name, ":", a blank, a     *)
(* newline, a word.  Python's substring test, split, startswith, strip and *)
(* lower are modelled on these sequences.                                  *)
(***************************************************************************)
EXTENDS Integers, Sequences, FiniteSets, TLC

(***************************************************************************)
(* Bounds of the model.                                                    *)
(***************************************************************************)
\* largest value of the environment variable OPENAI_MAX_RETRIES explored
MaxRetries == 3
\* largest number of files in one /detect-batch request
MaxFiles == 2
\* number of request slots (concurrent handler invocations)
NumCalls == 2

\* the longest response text, in pieces
MaxPieces == 4
\* largest number of customer keys generated
MaxKeys == 3
\* largest request_count explored
MaxVerifies == 2
\* largest number of writes of models/best.pt
MaxUploads == 2

(***************************************************************************)
(* Python string operations on token sequences.                            *)
(***************************************************************************)
\* str.lower() of one token
LowerTok(t) ==
    CASE t = "Timeout" -> "timeout"
      [] t = "Timed"   -> "timed"
      [] t = "Out"     -> "out"
      [] t = "Gateway" -> "gateway"
      [] t = "Read"    -> "read"
      [] t = "Connection" -> "connection"
      [] t = "API Error" -> "api error"
      [] t = "Invalid" -> "invalid"
      [] t = ".PT"     -> ".pt"
      [] OTHER         -> t

\* str.lower()
Lower(s) == [i \in 1..Len(s) |-> LowerTok(s[i])]

\* pat in s  (substring test)
Contains(s, pat) ==
    \E i \in 1..(Len(s) - Len(pat) + 1) : SubSeq(s, i, i + Len(pat) - 1) = pat

\* position of the first occurrence of token t in s, 0 when absent
RECURSIVE IndexOf(_, _)
IndexOf(s, t) ==
    IF s = <<>> THEN 0
    ELSE IF Head(s) = t THEN 1
    ELSE LET r == IndexOf(Tail(s), t) IN IF r = 0 THEN 0 ELSE r + 1

\* s.split(t): the pieces of s between the occurrences of token t
RECURSIVE Split(_, _)
Split(s, t) ==
    LET i == IndexOf(s, t) IN
    IF i = 0 THEN <<s>>
    ELSE <<SubSeq(s, 1, i - 1)>> \o Split(SubSeq(s, i + 1, Len(s)), t)

\* Python's whitespace characters as tokens
Whitespace == {" ", "\t", "\r", "\n"}

\* s.strip()
RECURSIVE LStrip(_)
LStrip(s) == IF s # <<>> /\ Head(s) \in Whitespace THEN LStrip(Tail(s)) ELSE s

RECURSIVE RStrip(_)
RStrip(s) ==
    IF s # <<>> /\ s[Len(s)] \in Whitespace THEN RStrip(SubSeq(s, 1, Len(s) - 1)) ELSE s

Strip(s) == RStrip(LStrip(s))

\* line.startswith(prefix + ':')
StartsWithField(line, prefix) ==
    Len(line) >= 2 /\ line[1] = prefix /\ line[2] = ":"

\* the text after the last colon of the line
AfterFirstColon_last(line) ==
    LET i == CHOOSE k \in 1..Len(line) :
                 line[k] = ":" /\ \A j \in (k + 1)..Len(line) : line[j] # ":"
    IN  Strip(SubSeq(line, i + 1, Len(line)))

\* line.split(':', 1)[1].strip() for a line that contains ':'
AfterFirstColon(line) ==
    LET i == IndexOf(line, ":") IN Strip(SubSeq(line, i + 1, Len(line)))

(***************************************************************************)
(* The response parser: the tail of detect_with_openai_vision.             *)
(***************************************************************************)
\* a device dict whose fields all start empty
DefaultDevice_all_empty ==
    [device_type |-> <<>>, brand |-> <<>>, model |-> <<>>, serial |-> <<>>,
     port_count |-> <<>>, confidence |-> <<>>, text_on_device |-> <<>>,
     features |-> <<>>, description |-> <<>>]

\* the device dict as first built for a block
DefaultDevice ==
    [device_type |-> <<"Unknown">>, brand |-> <<"Unknown">>, model |-> <<"Unknown">>,
     serial |-> <<"Unknown">>, port_count |-> <<"Unknown">>,
     confidence |-> <<"Unknown">>, text_on_device |-> <<>>, features |-> <<>>,
     description |-> <<>>]

\* the if/elif chain over the line prefixes, in the order of the code
FieldPrefixes ==
    << <<"DEVICE_TYPE", "device_type">>, <<"BRAND", "brand">>, <<"MODEL", "model">>,
       <<"SERIAL", "serial">>, <<"PORT_COUNT", "port_count">>,
       <<"CONFIDENCE", "confidence">>, <<"TEXT_ON_DEVICE", "text_on_device">>,
       <<"FEATURES", "features">>, <<"DESCRIPTION", "description">> >>

\* one pass of the loop body `for line in lines`
ParseLine(device, line) ==
    LET hits == {i \in 1..Len(FieldPrefixes) : StartsWithField(line, FieldPrefixes[i][1])}
    IN  IF hits = {} THEN device
        ELSE LET i == CHOOSE k \in hits : \A j \in hits : k <= j
             IN  [device EXCEPT ![FieldPrefixes[i][2]] = AfterFirstColon(line)]

\* the loop `for line in lines`
RECURSIVE ParseLines(_, _)
ParseLines(device, lines) ==
    IF lines = <<>> THEN device
    ELSE ParseLines(ParseLine(device, Head(lines)), Tail(lines))

\* the device built from a block that contains ===DEVICE_END===
ParseBlock(block) ==
    LET device_text == Split(block, "===DEVICE_END===")[1]
    IN  ParseLines(DefaultDevice, Split(device_text, "\n"))

\* every device built from a block is appended
KeepDevice_always(device) == TRUE

\* the test that decides whether the device of a block is appended
KeepDevice(device) == device.device_type # <<"Unknown">>

\* a loop that builds a device from every block, ended or not
RECURSIVE ParseBlocks_no_end_check(_)
ParseBlocks_no_end_check(device_blocks) ==
    IF device_blocks = <<>> THEN <<>>
    ELSE LET block == Head(device_blocks)
             rest  == ParseBlocks_no_end_check(Tail(device_blocks))
         IN  IF KeepDevice(ParseBlock(block))
             THEN <<ParseBlock(block)>> \o rest
             ELSE rest

\* the loop `for block in device_blocks`
RECURSIVE ParseBlocks(_)
ParseBlocks(device_blocks) ==
    IF device_blocks = <<>> THEN <<>>
    ELSE LET block == Head(device_blocks)
             rest  == ParseBlocks(Tail(device_blocks))
         IN  IF Contains(block, <<"===DEVICE_END===">>) /\ KeepDevice(ParseBlock(block))
             THEN <<ParseBlock(block)>> \o rest
             ELSE rest

\* a parser that looks for the sentinel only when the blocks gave no device
ParseResponse_blocks_first(result_text) ==
    LET devices == ParseBlocks(Split(result_text, "===DEVICE_START==="))
    IN  IF devices # <<>> THEN devices
        ELSE IF Contains(result_text, <<"NO_DEVICE_DETECTED">>) THEN <<>>
        ELSE devices

\* result_text -> devices
ParseResponse(result_text) ==
    IF Contains(result_text, <<"NO_DEVICE_DETECTED">>) THEN <<>>
    ELSE ParseBlocks(Split(result_text, "===DEVICE_START==="))

(***************************************************************************)
(* Exceptions.  An exception is [type, msg, status]; status is the         *)
(* status_code of an HTTPException and 0 for every other type.             *)
(***************************************************************************)
\* the classes an exception of the given type is an instance of
Bases(type) ==
    CASE type = "ReadTimeout" ->
            {"ReadTimeout", "Timeout", "RequestException", "Exception"}
      [] type = "ConnectTimeout" ->
            {"ConnectTimeout", "ConnectionError", "Timeout", "RequestException",
             "Exception"}
      [] type = "ConnectionError" ->
            {"ConnectionError", "RequestException", "Exception"}
      [] type = "JSONDecodeError" ->
            {"JSONDecodeError", "InvalidJSONError", "RequestException", "Exception"}
      [] type = "HTTPError" -> {"HTTPError", "RequestException", "Exception"}
      [] type = "HTTPException" -> {"HTTPException", "Exception"}
      [] OTHER -> {type, "Exception"}

Exc(type, msg) == [type |-> type, msg |-> msg, status |-> 0]

NoExc == Exc("None", <<>>)

(***************************************************************************)
(* The remote service as seen by requests.post: either the call raises,    *)
(* or an HTTP response arrives.  A response is its status code, its body   *)
(* text, and what response.json() makes of the body: json is "invalid"     *)
(* when the body is not JSON (json_exc names the exception the installed   *)
(* requests raises for it), "no_choices" when the object has no            *)
(* choices[0].message.content, "null" when that content is null, and "ok"  *)
(* when it is the string `content`.                                        *)
(***************************************************************************)
NetRaise(type, msg) ==
    [kind |-> "raise", exc |-> Exc(type, msg), status_code |-> 0, text |-> <<>>,
     json |-> "none", json_exc |-> "None", content |-> <<>>]

NetHttp(status_code, text, json, json_exc, content) ==
    [kind |-> "http", exc |-> NoExc, status_code |-> status_code, text |-> text,
     json |-> json, json_exc |-> json_exc, content |-> content]

NoNet == NetRaise("None", <<>>)

\* a MockResponse, or None
MockResponse(is_str, content) == [is_none |-> FALSE, is_str |-> is_str, content |-> content]

None == [is_none |-> TRUE, is_str |-> FALSE, content |-> <<>>]

\* what a call of the client gives: a raised exception or a returned MockResponse
Raised(exc) == [raised |-> TRUE, exc |-> exc, response |-> None]

Returned(response) == [raised |-> FALSE, exc |-> NoExc, response |-> response]

\* a client that reports an error status the way response.raise_for_status() does
chat_completions_create_http_error(net) ==
    IF net.kind = "raise" THEN Raised(net.exc)
    ELSE IF net.status_code # 200
         THEN Raised(Exc("HTTPError",
                         <<ToString(net.status_code), " ", "Error", ":", " ">> \o net.text))
    ELSE IF net.json = "invalid"
         THEN Raised(Exc(net.json_exc, <<"Expecting", " ", "value">>))
    ELSE IF net.json = "no_choices"
         THEN Raised(Exc("KeyError", <<"'choices'">>))
    ELSE Returned(MockResponse(net.json = "ok", net.content))

\* SimpleOpenAIClient.chat_completions_create, given what the network does
chat_completions_create(net) ==
    IF net.kind = "raise" THEN Raised(net.exc)
    ELSE IF net.status_code # 200
         THEN Raised(Exc("Exception",
                         <<"API Error", " ", ToString(net.status_code), ":", " ">>
                             \o net.text))
    ELSE IF net.json = "invalid"
         THEN Raised(Exc(net.json_exc, <<"Expecting", " ", "value">>))
    ELSE IF net.json = "no_choices"
         THEN Raised(Exc("KeyError", <<"'choices'">>))
    ELSE Returned(MockResponse(net.json = "ok", net.content))

(***************************************************************************)
(* The retry loop of detect_with_openai_vision.                            *)
(***************************************************************************)
retry_delay == 1

\* a backoff that grows by a fixed step instead of doubling
wait_time_linear(attempt) == retry_delay * 2 * attempt

\* a backoff that starts at twice the base delay
wait_time_shifted(attempt) == retry_delay * (2 ^ (attempt + 1))

\* wait_time = retry_delay * (2 ** attempt)
wait_time(attempt) == retry_delay * (2 ^ attempt)

\* a retry test that is off by one: it also retries after the last permitted attempt
CanRetry_late(attempt, max_retries) == attempt < max_retries

\* the test `attempt < max_retries - 1` of the three retrying handlers
CanRetry(attempt, max_retries) == attempt < max_retries - 1

\* the except clauses with the transport clause ahead of the timeout clause
ExceptClauses_transport_first ==
    << [types |-> {"RequestException"}, handler |-> "transport"],
       [types |-> {"Timeout"},          handler |-> "timeout"],
       [types |-> {"HTTPException"},    handler |-> "reraise"],
       [types |-> {"Exception"},        handler |-> "generic"] >>

\* the except clauses of the try in the loop, in the order of the code
ExceptClauses ==
    << [types |-> {"Timeout"},          handler |-> "timeout"],
       [types |-> {"RequestException"}, handler |-> "transport"],
       [types |-> {"HTTPException"},    handler |-> "reraise"],
       [types |-> {"Exception"},        handler |-> "generic"] >>

\* the handler Python picks: the first clause the exception is an instance of
HandlerOf(exc) ==
    LET hits == {i \in 1..Len(ExceptClauses) : ExceptClauses[i].types \cap Bases(exc.type) # {}}
    IN  ExceptClauses[CHOOSE k \in hits : \A j \in hits : k <= j].handler

\* a message test that looks for 'timeout' only
IsTimeoutMessage_one_word(exc) == Contains(Lower(exc.msg), <<"timeout">>)

\* 'timeout' in error_str or 'timed out' in error_str, error_str = str(e).lower()
IsTimeoutMessage(exc) ==
    LET error_str == Lower(exc.msg)
    IN  Contains(error_str, <<"timeout">>) \/ Contains(error_str, <<"timed", " ", "out">>)

\* what a handler does: sleep and continue, or raise an HTTPException
DoSleep(w) == [act |-> "sleep", wait |-> w, status |-> 0, detail |-> <<>>]

DoRaise(status, detail) == [act |-> "raise", wait |-> 0, status |-> status, detail |-> detail]

TimeoutHandler(exc, attempt, max_retries) ==
    IF CanRetry(attempt, max_retries) THEN DoSleep(wait_time(attempt))
    ELSE DoRaise(504, <<"OpenAI API request timed out after ", ToString(max_retries),
                        " attempts. Please try again with a smaller image.">>)

\* a transport handler that reports exhaustion as a timeout
TransportHandler_as_timeout(exc, attempt, max_retries) ==
    IF CanRetry(attempt, max_retries) THEN DoSleep(wait_time(attempt))
    ELSE DoRaise(504, <<"OpenAI Vision API error: ">> \o exc.msg)

TransportHandler(exc, attempt, max_retries) ==
    IF CanRetry(attempt, max_retries) THEN DoSleep(wait_time(attempt))
    ELSE DoRaise(503, <<"OpenAI Vision API error: ">> \o exc.msg)

\* a generic handler that retries whatever the message says
GenericHandler_retry_all(exc, attempt, max_retries) ==
    IF CanRetry(attempt, max_retries) THEN DoSleep(wait_time(attempt))
    ELSE DoRaise(500, <<"OpenAI Vision API error: ">> \o exc.msg)

\* a generic handler that reports an exhausted timeout as a transport failure
GenericHandler_exhausted_503(exc, attempt, max_retries) ==
    IF IsTimeoutMessage(exc)
    THEN IF CanRetry(attempt, max_retries) THEN DoSleep(wait_time(attempt))
         ELSE DoRaise(503, <<"OpenAI Vision API error: ">> \o exc.msg)
    ELSE DoRaise(500, <<"OpenAI Vision API error: ">> \o exc.msg)

GenericHandler(exc, attempt, max_retries) ==
    IF IsTimeoutMessage(exc)
    THEN IF CanRetry(attempt, max_retries) THEN DoSleep(wait_time(attempt))
         ELSE DoRaise(504, <<"OpenAI API request timed out. Please try again with a smaller image or check your network connection.">>)
    ELSE DoRaise(500, <<"OpenAI Vision API error: ">> \o exc.msg)

\* the except clauses applied to an exception raised in attempt `attempt`
OnException(exc, attempt, max_retries) ==
    LET h == HandlerOf(exc)
    IN  CASE h = "timeout"   -> TimeoutHandler(exc, attempt, max_retries)
          [] h = "transport" -> TransportHandler(exc, attempt, max_retries)
          [] h = "reraise"   -> DoRaise(exc.status, exc.msg)
          [] h = "generic"   -> GenericHandler(exc, attempt, max_retries)

\* how a call of detect_with_openai_vision ends: a returned list or an HTTPException
ReturnDevices(devices) ==
    [kind |-> "return", devices |-> devices, status |-> 0, detail |-> <<>>]

RaiseHTTP(status, detail) ==
    [kind |-> "raise", devices |-> <<>>, status |-> status, detail |-> detail]

NoOutcome == [kind |-> "none", devices |-> <<>>, status |-> 0, detail |-> <<>>]

\* a call that returns an empty list when the loop left no response
AfterLoop_empty_list(response) ==
    IF response.is_none THEN ReturnDevices(<<>>)
    ELSE IF ~response.is_str
         THEN RaiseHTTP(500, <<"OpenAI Vision API error: ",
                               "argument of type 'NoneType' is not iterable">>)
    ELSE ReturnDevices(ParseResponse(response.content))

\* the code after the loop: the `if not response` test, then the parsing try block
AfterLoop(response) ==
    IF response.is_none
    THEN RaiseHTTP(500, <<"Failed to get response from OpenAI API after all retries">>)
    ELSE IF ~response.is_str
         THEN RaiseHTTP(500, <<"OpenAI Vision API error: ",
                               "argument of type 'NoneType' is not iterable">>)
    ELSE ReturnDevices(ParseResponse(response.content))

(***************************************************************************)
(* The request handlers around detect_with_openai_vision.                  *)
(***************************************************************************)
NoOcr ==
    [present |-> FALSE, brand |-> <<>>, model |-> <<>>, serial |-> <<>>,
     port_count |-> <<>>, extracted_text |-> <<>>]

\* ocr_data as the three handlers build it in openai mode
\* an OCR summary taken from the last device of the list
OcrData_last_device(enable_ocr, devices) ==
    IF enable_ocr /\ devices # <<>> /\ Len(devices) > 0
    THEN LET last_device == devices[Len(devices)]
         IN  [present |-> TRUE, brand |-> last_device.brand,
              model |-> last_device.model, serial |-> last_device.serial,
              port_count |-> last_device.port_count,
              extracted_text |-> last_device.text_on_device]
    ELSE NoOcr

OcrData(enable_ocr, devices) ==
    IF enable_ocr /\ devices # <<>> /\ Len(devices) > 0
    THEN LET first_device == devices[1]
         IN  [present |-> TRUE, brand |-> first_device.brand,
              model |-> first_device.model, serial |-> first_device.serial,
              port_count |-> first_device.port_count,
              extracted_text |-> first_device.text_on_device]
    ELSE NoOcr

\* str(e) of an HTTPException
StrHTTPException(status, detail) == <<ToString(status), ": ">> \o detail

\* what a handler sends back: a 200 body or the status and detail of an HTTPException
OkReply(devices, ocr_data, batch_results) ==
    [status |-> 200, success |-> TRUE, devices |-> devices, ocr_data |-> ocr_data,
     batch_results |-> batch_results, detail |-> <<>>]

ErrorReply(status, detail) ==
    [status |-> status, success |-> FALSE, devices |-> <<>>, ocr_data |-> NoOcr,
     batch_results |-> <<>>, detail |-> detail]

NoReply == ErrorReply(0, <<>>)

\* a handler for which an empty device list is a failure
detect_device_empty_is_error(out, enable_ocr) ==
    IF out.kind = "return" /\ out.devices # <<>>
    THEN OkReply(out.devices, OcrData(enable_ocr, out.devices), <<>>)
    ELSE ErrorReply(500, StrHTTPException(out.status, out.detail))

\* detect_device (/detect): every exception, HTTPException included, becomes a 500
detect_device(out, enable_ocr) ==
    IF out.kind = "return"
    THEN OkReply(out.devices, OcrData(enable_ocr, out.devices), <<>>)
    ELSE ErrorReply(500, StrHTTPException(out.status, out.detail))

\* customer_detect (/v1/detect): an HTTPException is raised again as it is
customer_detect(out, enable_ocr) ==
    IF out.kind = "return"
    THEN OkReply(out.devices, OcrData(enable_ocr, out.devices), <<>>)
    ELSE ErrorReply(out.status, out.detail)

\* detect_batch: the entry appended to results for image idx (0-based); its
\* image_name and error texts, which the handler never reads back, are left out
BatchEntry(i, out, enable_ocr) ==
    IF out.kind = "return"
    THEN [image_index |-> i + 1, success |-> TRUE, devices |-> out.devices,
          ocr_data |-> OcrData(enable_ocr, out.devices),
          device_count |-> Len(out.devices)]
    ELSE [image_index |-> i + 1, success |-> FALSE, devices |-> <<>>,
          ocr_data |-> NoOcr, device_count |-> 0]

\* detect_batch: the exception classes the try around one image catches
ImageExceptTypes == {"Exception"}

\* a batch loop that a failing image leaves
BatchContinuesAfter_abort(out) == out.kind # "raise"

\* detect_batch: the loop over the files goes on after this image
BatchContinuesAfter(out) ==
    out.kind = "raise" => ImageExceptTypes \cap Bases("HTTPException") # {}

Endpoints == {"/detect", "/v1/detect", "/detect-batch"}

(***************************************************************************)
(* What the remote service can do in one attempt.                          *)
(***************************************************************************)
TwoDevices ==
    <<"===DEVICE_START===", "\n", "DEVICE_TYPE", ":", " ", "Switch", "\n",
      "MODEL", ":", " ", "X1", "\n", "===DEVICE_END===", "\n",
      "===DEVICE_START===", "\n", "DEVICE_TYPE", ":", " ", "Router", "\n",
      "MODEL", ":", " ", "X2", "\n", "===DEVICE_END===">>

NoDevice == <<"NO_DEVICE_DETECTED">>

Texts == {TwoDevices, NoDevice}

NetResults ==
    { NetRaise("ConnectTimeout", <<"Connection", " ", "timed", " ", "out">>),
      NetRaise("ConnectionError", <<"Connection", " ", "timed", " ", "out">>),
      NetRaise("TimeoutError", <<"The", " ", "read", " ", "operation", " ", "timed", " ", "out">>),
      NetHttp(401, <<"invalid", " ", "key">>, "none", "None", <<>>),
      NetHttp(500, <<"Gateway", " ", "Timeout">>, "none", "None", <<>>),
      NetHttp(200, <<"<html>">>, "invalid", "JSONDecodeError", <<>>),
      NetHttp(200, <<"<html>">>, "invalid", "ValueError", <<>>),
      NetHttp(200, <<"{}">>, "no_choices", "None", <<>>),
      NetHttp(200, <<"{content: null}">>, "null", "None", <<>>) }
    \cup { NetHttp(200, <<"{content: ...}">>, "ok", "None", t) : t \in Texts }

(***************************************************************************)
(* State.                                                                  *)
(***************************************************************************)
Calls == 1..NumCalls

VARIABLES
    OPENAI_MAX_RETRIES, \* the environment variable, as int(os.getenv(...)) reads it
    active,             \* the request slots that take a request
    pc,                 \* where each handler is
    request,            \* endpoint, enable_ocr and number of files of each request
    idx,                \* detect_batch: index of the image being processed
    results,            \* detect_batch: the results list
    reply,              \* what each handler has sent back
    max_retries,        \* detect_with_openai_vision: local max_retries
    attempt,            \* detect_with_openai_vision: loop variable
    pending_wait,       \* detect_with_openai_vision: wait_time of the running sleep
    response,           \* detect_with_openai_vision: local response
    outcome,            \* how the current call of detect_with_openai_vision ended
    trace,              \* the remote attempts and sleeps of the current call, in order
    customers,          \* data/customer_keys.json: the "customers" dict
    issued,             \* how many keys generate_customer_key has given out
    accepted,           \* how often verify_customer_api_key has returned each key
    auth,               \* what the last call of verify_customer_api_key gave
    yolo_model,         \* the module's cached model
    best_pt,            \* the file models/best.pt of the project
    legacy_pt,          \* the file models/best.pt of the backend directory
    cache_op            \* what the last call of load_yolo_model or save_uploaded_model gave

\* the key store and the model cache
store_vars == <<customers, issued, accepted, auth, yolo_model, best_pt, legacy_pt, cache_op>>

\* the request handlers and the calls of detect_with_openai_vision
exec_vars ==
    <<OPENAI_MAX_RETRIES, active, pc, request, idx, results, reply, max_retries,
      attempt, pending_wait, response, outcome, trace>>

vars ==
    <<OPENAI_MAX_RETRIES, active, pc, request, idx, results, reply, max_retries,
      attempt, pending_wait, response, outcome, trace,
      customers, issued, accepted, auth, yolo_model, best_pt, legacy_pt, cache_op>>

(***************************************************************************)
(* The customer key store (data/customer_keys.json) and the model cache.   *)
(***************************************************************************)
\* the n-th key generate_customer_key gives out; key 0 is one it never gives
KeyName(n) == "aicr_" \o ToString(n)

KeyUniverse == {KeyName(n) : n \in 0..MaxKeys} \cup {""}

\* an entry of the customers dict (name, email and created_at, which no code reads
\* back for a decision, are left out); present = FALSE: the dict has no such key
Customer(customer_id, is_active, request_count) ==
    [present |-> TRUE, customer_id |-> customer_id, active |-> is_active,
     request_count |-> request_count]

NoCustomer == [present |-> FALSE, customer_id |-> 0, active |-> FALSE, request_count |-> 0]

\* {"customers": {}}, the file ensure_customer_keys_file writes
EmptyStore == [k \in KeyUniverse |-> NoCustomer]

NoAuth == [header |-> <<>>, status |-> 0, api_key |-> ""]

\* a weights file: its content is the version-th one written; intact = FALSE: the
\* write broke off
WeightsFile(version, intact) == [exists |-> TRUE, version |-> version, intact |-> intact]

NoFile == [exists |-> FALSE, version |-> 0, intact |-> FALSE]

\* YOLO(resolved_path): the model of the weights found at that place
Model(path, version) == [is_none |-> FALSE, path |-> path, version |-> version]

NoModel == [is_none |-> TRUE, path |-> "none", version |-> 0]

NoCacheOp == [op |-> "none", status |-> 0, returned |-> NoModel]

\* the key store of a server that has not been asked for a key yet
KeyStoreIdle ==
    /\ issued = 0
    /\ accepted = [k \in KeyUniverse |-> 0]
    /\ auth = NoAuth

\* the cache of a server that has just been started: yolo_model = None
CacheIdle ==
    /\ yolo_model = NoModel
    /\ cache_op = NoCacheOp

\* the store and the cache of a server that was started on an empty project
StoreIdle ==
    /\ customers = EmptyStore
    /\ KeyStoreIdle
    /\ best_pt = NoFile
    /\ legacy_pt = NoFile
    /\ CacheIdle

\* no handler has a request
ExecIdle ==
    /\ OPENAI_MAX_RETRIES = 3
    /\ active = {}
    /\ pc = [c \in Calls |-> "idle"]
    /\ request = [c \in Calls |-> [endpoint |-> "none", enable_ocr |-> FALSE, nfiles |-> 0]]
    /\ idx = [c \in Calls |-> 0]
    /\ results = [c \in Calls |-> <<>>]
    /\ reply = [c \in Calls |-> ErrorReply(0, <<>>)]
    /\ max_retries = [c \in Calls |-> 0]
    /\ attempt = [c \in Calls |-> 0]
    /\ pending_wait = [c \in Calls |-> 0]
    /\ response = [c \in Calls |-> None]
    /\ outcome = [c \in Calls |-> NoOutcome]
    /\ trace = [c \in Calls |-> <<>>]

AttemptEv(n, net) == [ev |-> "attempt", n |-> n, wait |-> 0, net |-> net]

SleepEv(n, w) == [ev |-> "sleep", n |-> n, wait |-> w, net |-> NoNet]

NoRequest == [endpoint |-> "none", enable_ocr |-> FALSE, nfiles |-> 0]

\* for attempt in range(max_retries): is there an iteration for this value
InRange(n, max) == 0 <= n /\ n < max

InitFor(slots) ==
    /\ OPENAI_MAX_RETRIES \in (0 - 1)..MaxRetries
    /\ active = slots
    /\ pc = [c \in Calls |-> "idle"]
    /\ request = [c \in Calls |-> NoRequest]
    /\ idx = [c \in Calls |-> 0]
    /\ results = [c \in Calls |-> <<>>]
    /\ reply = [c \in Calls |-> NoReply]
    /\ max_retries = [c \in Calls |-> 0]
    /\ attempt = [c \in Calls |-> 0]
    /\ pending_wait = [c \in Calls |-> 0]
    /\ response = [c \in Calls |-> None]
    /\ outcome = [c \in Calls |-> NoOutcome]
    /\ trace = [c \in Calls |-> <<>>]
    /\ StoreIdle

Init == InitFor({1})

\* entry of detect_with_openai_vision up to the first iteration of the loop
EnterCall(c) ==
    /\ max_retries' = [max_retries EXCEPT ![c] = OPENAI_MAX_RETRIES]
    /\ attempt' = [attempt EXCEPT ![c] = 0]
    /\ pending_wait' = [pending_wait EXCEPT ![c] = 0]
    /\ response' = [response EXCEPT ![c] = None]
    /\ trace' = [trace EXCEPT ![c] = <<>>]
    /\ IF InRange(0, OPENAI_MAX_RETRIES)
       THEN /\ pc' = [pc EXCEPT ![c] = "attempt"]
            /\ outcome' = [outcome EXCEPT ![c] = NoOutcome]
       ELSE /\ pc' = [pc EXCEPT ![c] = "exec_done"]
            /\ outcome' = [outcome EXCEPT ![c] = AfterLoop(None)]

\* a handler starts on a request and calls detect_with_openai_vision for its first image
StartRequest(c) ==
    /\ c \in active
    /\ pc[c] = "idle"
    /\ \E e \in Endpoints, ocr \in BOOLEAN, n \in 1..MaxFiles :
          /\ e # "/detect-batch" => n = 1
          /\ request' = [request EXCEPT ![c] =
                            [endpoint |-> e, enable_ocr |-> ocr, nfiles |-> n]]
    /\ EnterCall(c)
    /\ UNCHANGED <<OPENAI_MAX_RETRIES, active, idx, results, reply>>
    /\ UNCHANGED store_vars

\* one iteration of the loop: the remote call and the handling of what it gives
Attempt(c) ==
    /\ pc[c] = "attempt"
    /\ \E net \in NetResults :
          LET r == chat_completions_create(net)
              h == OnException(r.exc, attempt[c], max_retries[c])
          IN  /\ trace' = [trace EXCEPT ![c] = Append(@, AttemptEv(attempt[c], net))]
              /\ IF ~r.raised
                 THEN /\ response' = [response EXCEPT ![c] = r.response]
                      /\ outcome' = [outcome EXCEPT ![c] = AfterLoop(r.response)]
                      /\ pc' = [pc EXCEPT ![c] = "exec_done"]
                      /\ UNCHANGED pending_wait
                 ELSE IF h.act = "sleep"
                 THEN /\ pending_wait' = [pending_wait EXCEPT ![c] = h.wait]
                      /\ pc' = [pc EXCEPT ![c] = "sleep"]
                      /\ UNCHANGED <<response, outcome>>
                 ELSE /\ outcome' = [outcome EXCEPT ![c] = RaiseHTTP(h.status, h.detail)]
                      /\ pc' = [pc EXCEPT ![c] = "exec_done"]
                      /\ UNCHANGED <<response, pending_wait>>
    /\ UNCHANGED <<OPENAI_MAX_RETRIES, active, request, idx, results, reply,
                   max_retries, attempt>>
    /\ UNCHANGED store_vars

\* a sleep that advances one loop counter shared by all the calls
Sleep_shared_counter(c) ==
    /\ pc[c] = "sleep"
    /\ trace' = [trace EXCEPT ![c] = Append(@, SleepEv(attempt[c], pending_wait[c]))]
    /\ pending_wait' = [pending_wait EXCEPT ![c] = 0]
    /\ IF InRange(attempt[c] + 1, max_retries[c])
       THEN /\ attempt' = [d \in Calls |-> attempt[d] + 1]
            /\ pc' = [pc EXCEPT ![c] = "attempt"]
            /\ UNCHANGED outcome
       ELSE /\ outcome' = [outcome EXCEPT ![c] = AfterLoop(response[c])]
            /\ pc' = [pc EXCEPT ![c] = "exec_done"]
            /\ UNCHANGED attempt
    /\ UNCHANGED <<OPENAI_MAX_RETRIES, active, request, idx, results, reply,
                   max_retries, response>>
    /\ UNCHANGED store_vars

\* a sleep after which the loop repeats the same iteration
Sleep_same_attempt(c) ==
    /\ pc[c] = "sleep"
    /\ trace' = [trace EXCEPT ![c] = Append(@, SleepEv(attempt[c], pending_wait[c]))]
    /\ pending_wait' = [pending_wait EXCEPT ![c] = 0]
    /\ pc' = [pc EXCEPT ![c] = "attempt"]
    /\ UNCHANGED <<OPENAI_MAX_RETRIES, active, request, idx, results, reply,
                   max_retries, response, outcome, attempt>>
    /\ UNCHANGED store_vars

\* time.sleep(wait_time) returns and `continue` takes the loop to its next iteration
Sleep(c) ==
    /\ pc[c] = "sleep"
    /\ trace' = [trace EXCEPT ![c] = Append(@, SleepEv(attempt[c], pending_wait[c]))]
    /\ pending_wait' = [pending_wait EXCEPT ![c] = 0]
    /\ IF InRange(attempt[c] + 1, max_retries[c])
       THEN /\ attempt' = [attempt EXCEPT ![c] = @ + 1]
            /\ pc' = [pc EXCEPT ![c] = "attempt"]
            /\ UNCHANGED outcome
       ELSE /\ outcome' = [outcome EXCEPT ![c] = AfterLoop(response[c])]
            /\ pc' = [pc EXCEPT ![c] = "exec_done"]
            /\ UNCHANGED attempt
    /\ UNCHANGED <<OPENAI_MAX_RETRIES, active, request, idx, results, reply,
                   max_retries, response>>
    /\ UNCHANGED store_vars

\* /detect and /v1/detect: the handler ends with the call's result
Respond(c) ==
    /\ pc[c] = "exec_done"
    /\ request[c].endpoint \in {"/detect", "/v1/detect"}
    /\ reply' = [reply EXCEPT ![c] =
                    IF request[c].endpoint = "/detect"
                    THEN detect_device(outcome[c], request[c].enable_ocr)
                    ELSE customer_detect(outcome[c], request[c].enable_ocr)]
    /\ pc' = [pc EXCEPT ![c] = "responded"]
    /\ UNCHANGED <<OPENAI_MAX_RETRIES, active, request, idx, results, max_retries,
                   attempt, pending_wait, response, outcome, trace>>
    /\ UNCHANGED store_vars

\* /detect-batch: the result of image idx is recorded and the next image is started
BatchNext(c) ==
    /\ pc[c] = "exec_done"
    /\ request[c].endpoint = "/detect-batch"
    /\ idx[c] + 1 < request[c].nfiles
    /\ BatchContinuesAfter(outcome[c])
    /\ results' = [results EXCEPT ![c] =
                      Append(@, BatchEntry(idx[c], outcome[c], request[c].enable_ocr))]
    /\ idx' = [idx EXCEPT ![c] = @ + 1]
    /\ EnterCall(c)
    /\ UNCHANGED <<OPENAI_MAX_RETRIES, active, request, reply>>
    /\ UNCHANGED store_vars

\* /detect-batch: the last image is recorded, or the batch fails, and the handler ends
BatchRespond(c) ==
    /\ pc[c] = "exec_done"
    /\ request[c].endpoint = "/detect-batch"
    /\ idx[c] + 1 >= request[c].nfiles \/ ~BatchContinuesAfter(outcome[c])
    /\ LET all == Append(results[c],
                         BatchEntry(idx[c], outcome[c], request[c].enable_ocr))
       IN  IF BatchContinuesAfter(outcome[c])
           THEN /\ results' = [results EXCEPT ![c] = all]
                /\ reply' = [reply EXCEPT ![c] = OkReply(<<>>, NoOcr, all)]
           ELSE /\ reply' = [reply EXCEPT ![c] =
                                ErrorReply(500, StrHTTPException(outcome[c].status,
                                                                 outcome[c].detail))]
                /\ UNCHANGED results
    /\ pc' = [pc EXCEPT ![c] = "responded"]
    /\ UNCHANGED <<OPENAI_MAX_RETRIES, active, request, idx, max_retries, attempt,
                   pending_wait, response, outcome, trace>>
    /\ UNCHANGED store_vars

Next ==
    \E c \in Calls :
        \/ StartRequest(c)
        \/ Attempt(c)
        \/ Sleep(c)
        \/ Respond(c)
        \/ BatchNext(c)
        \/ BatchRespond(c)

\* a remote call and a sleep that have begun come to an end: requests.post has a
\* timeout and time.sleep a finite duration
Fairness == \A c \in Calls : WF_vars(Attempt(c)) /\ WF_vars(Sleep(c))

FairSpec == Init /\ [][Next]_vars /\ Fairness

(***************************************************************************)
(* Concurrent requests: every slot takes a request, and the handlers'      *)
(* steps interleave.  The requests are single-image ones without OCR and   *)
(* the remote service gives one outcome of each kind: a timeout, an error  *)
(* response, a success.                                                    *)
(***************************************************************************)
ConcNets ==
    { NetRaise("ConnectTimeout", <<"Connection", " ", "timed", " ", "out">>),
      NetHttp(401, <<"invalid", " ", "key">>, "none", "None", <<>>),
      NetHttp(200, <<"{content: ...}">>, "ok", "None", TwoDevices) }

ConcInit == InitFor(Calls)

ConcStart(c) ==
    /\ StartRequest(c)
    /\ request'[c].endpoint \in {"/detect", "/v1/detect"}
    /\ ~request'[c].enable_ocr

ConcAttempt(c) ==
    /\ Attempt(c)
    /\ trace'[c][Len(trace'[c])].net \in ConcNets

ConcNext ==
    \E c \in Calls :
        \/ ConcStart(c)
        \/ ConcAttempt(c)
        \/ Sleep(c)
        \/ Respond(c)

ConcSpec == ConcInit /\ [][ConcNext]_vars

(***************************************************************************)
(* The parser on its own: the loop has left with the response of a first   *)
(* attempt that succeeded, and the code after the loop runs on its text.   *)
(* The text is any sequence of at most MaxPieces pieces of the format the  *)
(* prompt asks for: the delimiters, field lines, free text, the sentinel.  *)
(***************************************************************************)
TypeLine == <<"DEVICE_TYPE", ":", " ", "Router", "\n">>

\* a value with a colon in it and blanks around it
BrandLine == <<"BRAND", ":", " ", " ", "Cisco", ":", "X", " ", "\n">>

\* a line whose field name is not at its start
FreeLine == <<" ", "MODEL", ":", " ", "Z", "\n">>

\* a block as the prompt asks for it
SwitchBlock ==
    <<"===DEVICE_START===", "\n", "DEVICE_TYPE", ":", " ", "Switch", "\n">>
        \o BrandLine \o <<"===DEVICE_END===", "\n">>

\* a DEVICE_TYPE line whose value is the text of the default
UnknownLine == <<"DEVICE_TYPE", ":", " ", "Unknown", "\n">>

Pieces ==
    { <<"===DEVICE_START===", "\n">>, <<"===DEVICE_END===", "\n">>,
      TypeLine, BrandLine, FreeLine, UnknownLine, <<"NO_DEVICE_DETECTED", "\n">>,
      SwitchBlock }

RECURSIVE TextsOf(_)
TextsOf(n) ==
    IF n = 0 THEN {<<>>}
    ELSE LET shorter == TextsOf(n - 1)
         IN  shorter \cup {t \o p : t \in shorter, p \in Pieces}

ParseTexts == TextsOf(MaxPieces)

\* the single-image requests, with the OCR summary asked for (the default)
ParseRequests ==
    {[endpoint |-> e, enable_ocr |-> TRUE, nfiles |-> 1] : e \in {"/detect", "/v1/detect"}}

\* the handlers of the given slots are where the loop has left with the response
ParseInitFor(slots, texts, requests) ==
    /\ OPENAI_MAX_RETRIES = 3
    /\ active = slots
    /\ pc = [c \in Calls |-> IF c \in active THEN "parse" ELSE "idle"]
    /\ \E r \in requests :
          request = [c \in Calls |-> IF c \in active THEN r ELSE NoRequest]
    /\ idx = [c \in Calls |-> 0]
    /\ results = [c \in Calls |-> <<>>]
    /\ reply = [c \in Calls |-> NoReply]
    /\ max_retries = [c \in Calls |-> IF c \in active THEN OPENAI_MAX_RETRIES ELSE 0]
    /\ attempt = [c \in Calls |-> 0]
    /\ pending_wait = [c \in Calls |-> 0]
    /\ outcome = [c \in Calls |-> NoOutcome]
    /\ \E t \in texts :
          LET net == NetHttp(200, <<"{content: ...}">>, "ok", "None", t)
          IN  /\ response = [c \in Calls |->
                               IF c \in active THEN chat_completions_create(net).response
                               ELSE None]
              /\ trace = [c \in Calls |->
                            IF c \in active THEN <<AttemptEv(0, net)>> ELSE <<>>]
    /\ StoreIdle

\* a parser that collects the devices in a list shared by the calls
ParseStep_shared_list(c) ==
    /\ pc[c] = "parse"
    /\ LET others == CHOOSE d \in Calls : \A e \in Calls : e <= d
           out    == AfterLoop(response[c])
       IN  outcome' = [outcome EXCEPT ![c] =
                          [out EXCEPT !.devices = outcome[others].devices \o @]]
    /\ pc' = [pc EXCEPT ![c] = "exec_done"]
    /\ UNCHANGED <<OPENAI_MAX_RETRIES, active, request, idx, results, reply,
                   max_retries, attempt, pending_wait, response, trace>>
    /\ UNCHANGED store_vars

\* the code after the loop: the response's text is parsed and the call returns
ParseStep(c) ==
    /\ pc[c] = "parse"
    /\ outcome' = [outcome EXCEPT ![c] = AfterLoop(response[c])]
    /\ pc' = [pc EXCEPT ![c] = "exec_done"]
    /\ UNCHANGED <<OPENAI_MAX_RETRIES, active, request, idx, results, reply,
                   max_retries, attempt, pending_wait, response, trace>>
    /\ UNCHANGED store_vars

ParseInit == ParseInitFor({1}, ParseTexts, ParseRequests)

ParseNext == \E c \in Calls : ParseStep(c) \/ Respond(c)

ParseSpec == ParseInit /\ [][ParseNext]_vars

(***************************************************************************)
(* The same response text parsed by every slot, in any order: requests     *)
(* for the same image that the remote service answered alike.              *)
(***************************************************************************)
TwiceTexts == TextsOf(MaxPieces - 1)

TwiceInit == ParseInitFor(Calls, TwiceTexts, ParseRequests)

TwiceNext == \E c \in Calls : ParseStep(c)

TwiceSpec == TwiceInit /\ [][TwiceNext]_vars

(***************************************************************************)
(* The customer key store: /admin/customers (add, delete) and the          *)
(* Authorization check of the customer endpoints.  The handlers are        *)
(* coroutines without an await between reading and writing the file, so    *)
(* each operation is one step.                                             *)
(***************************************************************************)
\* len(data['customers'])
NumCustomers(store) == Cardinality({k \in KeyUniverse : store[k].present})

\* add_customer: a new key, customer_id = "customer_<len + 1>"
AddCustomer ==
    /\ issued < MaxKeys
    /\ LET api_key == KeyName(issued + 1)
           customer_id == NumCustomers(customers) + 1
       IN  customers' = [customers EXCEPT ![api_key] = Customer(customer_id, TRUE, 0)]
    /\ issued' = issued + 1
    /\ UNCHANGED <<accepted, auth, yolo_model, best_pt, legacy_pt, cache_op>>
    /\ UNCHANGED exec_vars

\* delete_customer: the entry is removed when the dict has the key
DeleteCustomer(api_key) ==
    /\ customers' = IF customers[api_key].present
                    THEN [customers EXCEPT ![api_key] = NoCustomer]
                    ELSE customers
    /\ UNCHANGED <<issued, accepted, auth, yolo_model, best_pt, legacy_pt, cache_op>>
    /\ UNCHANGED exec_vars

\* s.replace(t, '') for a token t
RECURSIVE Remove(_, _)
Remove(s, t) ==
    IF s = <<>> THEN <<>>
    ELSE IF Head(s) = t THEN Remove(Tail(s), t)
    ELSE <<Head(s)>> \o Remove(Tail(s), t)

\* authorization.replace('Bearer ', '').strip(), for a header with at most one key in it
NormalizedKey(authorization) ==
    LET s == Strip(Remove(authorization, "Bearer "))
    IN  IF s = <<>> THEN "" ELSE s[1]

\* a check that takes every stored key, active or not
is_valid_customer_key_any_stored(api_key) == customers[api_key].present

\* customer is not None and customer.get('active', False)
is_valid_customer_key(api_key) ==
    customers[api_key].present /\ customers[api_key].active

\* increment_customer_usage on the store
increment_customer_usage(store, api_key) ==
    IF store[api_key].present
    THEN [store EXCEPT ![api_key].request_count = @ + 1]
    ELSE store

\* the Authorization headers: none, a key as it is, a key after 'Bearer '
Headers ==
    {<<>>, <<"Bearer ">>}
        \cup {<<KeyName(n)>> : n \in 0..MaxKeys}
        \cup {<<"Bearer ", KeyName(n), " ">> : n \in 0..MaxKeys}

\* verify_customer_api_key: 401 without a header or for a key that is not valid,
\* otherwise the usage is counted and the key returned
VerifyCustomerApiKey(authorization) ==
    LET api_key == NormalizedKey(authorization)
    IN  IF authorization = <<>> \/ ~is_valid_customer_key(api_key)
        THEN /\ auth' = [header |-> authorization, status |-> 401, api_key |-> ""]
             /\ UNCHANGED <<customers, accepted>>
        ELSE /\ customers[api_key].request_count < MaxVerifies
             /\ customers' = increment_customer_usage(customers, api_key)
             /\ accepted' = [accepted EXCEPT ![api_key] = @ + 1]
             /\ auth' = [header |-> authorization, status |-> 200, api_key |-> api_key]

Verify ==
    /\ \E authorization \in Headers : VerifyCustomerApiKey(authorization)
    /\ UNCHANGED <<issued, yolo_model, best_pt, legacy_pt, cache_op>>
    /\ UNCHANGED exec_vars

\* the key file is kept from one run of the server to the next: it is empty, or it
\* holds a customer that was set inactive by hand (no operation of the server does)
KeyInit ==
    /\ ExecIdle
    /\ customers \in {EmptyStore,
                      [EmptyStore EXCEPT ![KeyName(0)] = Customer(1, FALSE, 0)]}
    /\ KeyStoreIdle
    /\ best_pt = NoFile
    /\ legacy_pt = NoFile
    /\ CacheIdle

KeyNext ==
    \/ AddCustomer
    \/ \E api_key \in KeyUniverse : DeleteCustomer(api_key)
    \/ Verify

KeySpec == KeyInit /\ [][KeyNext]_vars

(***************************************************************************)
(* The model cache: load_yolo_model and save_uploaded_model.  Both run     *)
(* without an await, so each call is one step.                             *)
(***************************************************************************)
\* the place load_yolo_model resolves (its callers pass no model_path)
ResolvedPath ==
    IF best_pt.exists THEN "project"
    ELSE IF legacy_pt.exists THEN "backend"
    ELSE "none"

FileAt(path) == IF path = "project" THEN best_pt ELSE legacy_pt

LoadReply(model) == [op |-> "load", status |-> 200, returned |-> model]

SaveReply(status) == [op |-> "save", status |-> status, returned |-> NoModel]

\* load_yolo_model: the cached model when there is one; otherwise the weights are
\* looked for and loaded, and any failure (import, missing or broken file) leaves None
LoadYoloModel ==
    /\ IF ~yolo_model.is_none
       THEN /\ UNCHANGED yolo_model
            /\ cache_op' = LoadReply(yolo_model)
       ELSE /\ \E loads \in BOOLEAN :
                  yolo_model' =
                      IF loads /\ ResolvedPath # "none" /\ FileAt(ResolvedPath).intact
                      THEN Model(ResolvedPath, FileAt(ResolvedPath).version)
                      ELSE NoModel
            /\ cache_op' = LoadReply(yolo_model')
    /\ UNCHANGED <<customers, issued, accepted, auth, best_pt, legacy_pt>>
    /\ UNCHANGED exec_vars

\* a save that leaves the cached model as it is
SaveUploadedModel_keeps_cache ==
    /\ best_pt.version < MaxUploads
    /\ \/ /\ best_pt' = WeightsFile(best_pt.version + 1, TRUE)
          /\ cache_op' = SaveReply(200)
       \/ /\ best_pt' \in {best_pt, WeightsFile(best_pt.version + 1, FALSE)}
          /\ cache_op' = SaveReply(500)
    /\ UNCHANGED yolo_model
    /\ UNCHANGED <<customers, issued, accepted, auth, legacy_pt>>
    /\ UNCHANGED exec_vars

\* save_uploaded_model: the file is written and the cache reset; when open or write
\* fails (the file untouched, or cut short) the cache stays and a 500 is raised
SaveUploadedModel ==
    /\ best_pt.version < MaxUploads
    /\ \/ /\ best_pt' = WeightsFile(best_pt.version + 1, TRUE)
          /\ yolo_model' = NoModel
          /\ cache_op' = SaveReply(200)
       \/ /\ best_pt' \in {best_pt, WeightsFile(best_pt.version + 1, FALSE)}
          /\ UNCHANGED yolo_model
          /\ cache_op' = SaveReply(500)
    /\ UNCHANGED <<customers, issued, accepted, auth, legacy_pt>>
    /\ UNCHANGED exec_vars

\* the names an uploaded file can carry: none, a weights file, another file
UploadFilenames == {<<>>, <<"best", ".pt">>, <<"yolo", ".PT">>, <<"notes", ".txt">>}

\* filename.lower().endswith('.pt')
EndsWithPt(filename) ==
    filename # <<>> /\ Lower(filename)[Len(filename)] = ".pt"

\* POST /upload-model: size and extension are validated, then the file is saved
UploadModel(filename, too_large) ==
    IF too_large \/ ~EndsWithPt(filename)
    THEN /\ cache_op' = SaveReply(IF too_large THEN 413 ELSE 400)
         /\ UNCHANGED <<customers, issued, accepted, auth, yolo_model, best_pt, legacy_pt>>
         /\ UNCHANGED exec_vars
    ELSE SaveUploadedModel

\* the server starts with or without weights, sound or broken, at each of the two places
CacheInit ==
    /\ ExecIdle
    /\ customers = EmptyStore
    /\ KeyStoreIdle
    /\ best_pt \in {NoFile, WeightsFile(0, TRUE), WeightsFile(0, FALSE)}
    /\ legacy_pt \in {NoFile, WeightsFile(0, TRUE), WeightsFile(0, FALSE)}
    /\ CacheIdle

CacheNext ==
    \/ LoadYoloModel
    \/ \E filename \in UploadFilenames, too_large \in BOOLEAN : UploadModel(filename, too_large)

CacheSpec == CacheInit /\ [][CacheNext]_vars

Spec == Init /\ [][Next]_vars

(***************************************************************************)
(* Vocabulary of the properties.  The classes of a failed attempt are      *)
(* stated here from the exception the attempt raised, not from the         *)
(* handlers of the loop.                                                   *)
(***************************************************************************)
\* the call of slot c has ended (returned or raised)
Terminal(c) == pc[c] \in {"exec_done", "responded"}

IsAttemptEv(e) == e.ev = "attempt"

IsSleepEv(e) == e.ev = "sleep"

\* what the remote attempts of the current call gave, in order
NetsOf(c) ==
    LET a == SelectSeq(trace[c], IsAttemptEv) IN [i \in 1..Len(a) |-> a[i].net]

\* the sleeps of the current call, in order
SleepsOf(c) ==
    LET z == SelectSeq(trace[c], IsSleepEv) IN [i \in 1..Len(z) |-> z[i].wait]

\* the exception an attempt raised
RaisedBy(net) == chat_completions_create(net).exc

Fails(net) == chat_completions_create(net).raised

\* the attempt gave a success envelope whose content is a string
Succeeds(net) == ~Fails(net) /\ chat_completions_create(net).response.is_str

\* the message mentions a timeout, in any letter case
MentionsTimeout(msg) ==
    \/ Contains(Lower(msg), <<"timeout">>)
    \/ Contains(Lower(msg), <<"timed", " ", "out">>)

TimeoutType(net) == Fails(net) /\ "Timeout" \in Bases(RaisedBy(net).type)

TransportType(net) ==
    Fails(net) /\ "RequestException" \in Bases(RaisedBy(net).type) /\ ~TimeoutType(net)

GenericTimeout(net) ==
    /\ Fails(net)
    /\ "RequestException" \notin Bases(RaisedBy(net).type)
    /\ MentionsTimeout(RaisedBy(net).msg)

Retryable(net) == TimeoutType(net) \/ TransportType(net) \/ GenericTimeout(net)

NonRetryable(net) == Fails(net) /\ ~Retryable(net)

\* the backoff delays 1, 2, 4, ...
RECURSIVE Backoff(_)
Backoff(n) == IF n = 0 THEN 1 ELSE 2 * Backoff(n - 1)

\* attempts with the given results, a sleep of Backoff between each two, from attempt n on
RECURSIVE Alternating(_, _)
Alternating(nets, n) ==
    IF nets = <<>> THEN <<>>
    ELSE <<AttemptEv(n, Head(nets))>>
         \o (IF Len(nets) > 1 THEN <<SleepEv(n, Backoff(n))>> ELSE <<>>)
         \o Alternating(Tail(nets), n + 1)

\* the call of slot c is not over after j failed attempts: it sleeps, or has slept and
\* is about to make attempt j + 1
GoesOn(c, j) ==
    \/ /\ pc[c] = "sleep"
       /\ pending_wait[c] = Backoff(j - 1)
       /\ trace[c] = Alternating(NetsOf(c), 0)
    \/ /\ pc[c] = "attempt"
       /\ attempt[c] = j
       /\ trace[c] = Alternating(NetsOf(c), 0) \o <<SleepEv(j - 1, Backoff(j - 1))>>

\* the call of slot c ended at its last attempt by raising the given status
EndedWith(c, status) ==
    /\ Terminal(c)
    /\ trace[c] = Alternating(NetsOf(c), 0)
    /\ outcome[c].kind = "raise"
    /\ outcome[c].status = status

\* the attempt at position p of the trace of slot c is followed by a sleep of
\* Backoff(n) and then by attempt n + 1, as far as the call has got
RetriedAt(c, p) ==
    LET n == trace[c][p].n
        len == Len(trace[c])
    IN  /\ p = len => pc[c] = "sleep" /\ pending_wait[c] = Backoff(n)
        /\ p < len => trace[c][p + 1] = SleepEv(n, Backoff(n))
        /\ p + 1 = len => pc[c] = "attempt" /\ attempt[c] = n + 1
        /\ p + 1 < len => IsAttemptEv(trace[c][p + 2]) /\ trace[c][p + 2].n = n + 1

\* the attempt at position p is the last event of the call, which ended by raising
\* the given status
FinalAt(c, p, status) ==
    /\ p = Len(trace[c])
    /\ Terminal(c)
    /\ outcome[c].kind = "raise"
    /\ outcome[c].status = status

(***************************************************************************)
(* C1.  If the first k attempts of a call fail with a retryable condition  *)
(* (timeout type, transport type, or generic error whose message mentions  *)
(* a timeout), k < max_retries, the call goes on to attempt k+1 after a    *)
(* sleep of 2^(k-1); if attempt k+1 succeeds the call has made exactly     *)
(* k+1 attempts and k sleeps of 1, 2, ..., 2^(k-1), each between two       *)
(* attempts, and returns the parsed content.                               *)
(***************************************************************************)
C1_RetryThenSuccess ==
    \A c \in Calls :
        LET nets == NetsOf(c)
            j == Len(nets)
        IN  (j >= 1 /\ \A i \in 1..(j - 1) : Retryable(nets[i])) =>
               /\ (Retryable(nets[j]) /\ j < max_retries[c]) => GoesOn(c, j)
               /\ Succeeds(nets[j]) =>
                     /\ Terminal(c)
                     /\ trace[c] = Alternating(nets, 0)
                     /\ SleepsOf(c) = [i \in 1..(j - 1) |-> Backoff(i - 1)]
                     /\ outcome[c] = ReturnDevices(ParseResponse(nets[j].content))

\* two timeouts, then a success with two devices, under max_retries = 3
C1_Witness ==
    \E c \in Calls :
        /\ Terminal(c)
        /\ max_retries[c] = 3
        /\ Len(NetsOf(c)) = 3
        /\ TimeoutType(NetsOf(c)[1]) /\ TimeoutType(NetsOf(c)[2])
        /\ Succeeds(NetsOf(c)[3])
        /\ SleepsOf(c) = <<1, 2>>
        /\ Len(outcome[c].devices) = 2

(***************************************************************************)
(* C2.  If every attempt raises a timeout, a call with max_retries = N,    *)
(* N >= 1, makes exactly N attempts and N-1 sleeps of 1, 2, ..., 2^(N-2),  *)
(* none after the last attempt, and raises the 504 error.                  *)
(***************************************************************************)
C2_TimeoutExhaustion ==
    \A c \in Calls :
        LET nets == NetsOf(c)
            j == Len(nets)
        IN  (j >= 1 /\ \A i \in 1..j : TimeoutType(nets[i])) =>
               /\ j <= max_retries[c]
               /\ j < max_retries[c] => GoesOn(c, j)
               /\ j = max_retries[c] =>
                     /\ EndedWith(c, 504)
                     /\ SleepsOf(c) = [i \in 1..(j - 1) |-> Backoff(i - 1)]

C2_Witness ==
    \E c \in Calls :
        /\ Terminal(c)
        /\ max_retries[c] = 3
        /\ Len(NetsOf(c)) = 3
        /\ \A i \in 1..3 : TimeoutType(NetsOf(c)[i])
        /\ SleepsOf(c) = <<1, 2>>
        /\ outcome[c].status = 504

(***************************************************************************)
(* C3.  An attempt that raises an exception that is neither of a timeout   *)
(* type nor of a transport type and whose message does not mention a       *)
(* timeout is the last event of its call: no attempt and no sleep follow,  *)
(* and the call raises the 500 error that carries the message.  On         *)
(* attempt 1 that is one attempt and no sleep.                             *)
(***************************************************************************)
C3_NonRetryable ==
    \A c \in Calls : \A p \in 1..Len(trace[c]) :
        (IsAttemptEv(trace[c][p]) /\ NonRetryable(trace[c][p].net)) =>
            /\ FinalAt(c, p, 500)
            /\ outcome[c].detail =
                  <<"OpenAI Vision API error: ">> \o RaisedBy(trace[c][p].net).msg
            /\ trace[c][p].n = 0 => Len(trace[c]) = 1 /\ SleepsOf(c) = <<>>

C3_Witness ==
    \E c \in Calls :
        /\ Terminal(c)
        /\ max_retries[c] = 3
        /\ Len(trace[c]) = 1
        /\ NonRetryable(trace[c][1].net)
        /\ outcome[c].status = 500

(***************************************************************************)
(* C4.  If every attempt fails with a transport error that is not a        *)
(* timeout, the call makes exactly max_retries attempts with the backoff   *)
(* sleeps between them and raises the 503 error.                           *)
(***************************************************************************)
C4_TransportExhaustion ==
    \A c \in Calls :
        LET nets == NetsOf(c)
            j == Len(nets)
        IN  (j >= 1 /\ \A i \in 1..j : TransportType(nets[i])) =>
               /\ j <= max_retries[c]
               /\ j < max_retries[c] => GoesOn(c, j)
               /\ j = max_retries[c] =>
                     /\ EndedWith(c, 503)
                     /\ SleepsOf(c) = [i \in 1..(j - 1) |-> Backoff(i - 1)]

C4_Witness ==
    \E c \in Calls :
        /\ Terminal(c)
        /\ max_retries[c] = 3
        /\ Len(NetsOf(c)) = 3
        /\ \A i \in 1..3 : TransportType(NetsOf(c)[i])
        /\ SleepsOf(c) = <<1, 2>>
        /\ outcome[c].status = 503

(***************************************************************************)
(* C5.  On /detect and /v1/detect a failure raised by                      *)
(* detect_with_openai_vision reaches the client with the status it was     *)
(* raised with (504, 503 or 500).                                          *)
(***************************************************************************)
C5_StatusPreserved ==
    \A c \in Calls :
        (/\ pc[c] = "responded"
         /\ request[c].endpoint \in {"/detect", "/v1/detect"}
         /\ outcome[c].kind = "raise") => reply[c].status = outcome[c].status

(***************************************************************************)
(* C6.  In detect_batch a failing image does not stop the loop: every      *)
(* image gets exactly one entry, in input order; a failed image is         *)
(* recorded with success = false and no devices while the batch reply is   *)
(* a success; every image, also one after a failure, starts its own call   *)
(* at attempt 0 with the configured max_retries, and a call is exhausted   *)
(* only after max_retries attempts of its own.                             *)
(***************************************************************************)
C6_State(c) ==
    request[c].endpoint = "/detect-batch" =>
        /\ pc[c] # "responded" => Len(results[c]) = idx[c]
        /\ \A i \in 1..Len(results[c]) :
              /\ results[c][i].image_index = i
              /\ ~results[c][i].success =>
                    results[c][i].devices = <<>> /\ results[c][i].device_count = 0
        /\ pc[c] = "responded" =>
              /\ reply[c].status = 200 /\ reply[c].success
              /\ reply[c].batch_results = results[c]
              /\ Len(results[c]) = request[c].nfiles
        /\ max_retries[c] = OPENAI_MAX_RETRIES
        /\ trace[c] # <<>> => IsAttemptEv(trace[c][1]) /\ trace[c][1].n = 0
        /\ (Terminal(c) /\ outcome[c].status \in {503, 504}) =>
              Len(NetsOf(c)) = OPENAI_MAX_RETRIES

C6_Step(c) ==
    (/\ request[c].endpoint = "/detect-batch"
     /\ pc[c] = "exec_done"
     /\ (idx'[c] # idx[c] \/ pc'[c] # pc[c])) =>
        /\ Len(results'[c]) = Len(results[c]) + 1
        /\ SubSeq(results'[c], 1, Len(results[c])) = results[c]
        /\ LET e == results'[c][Len(results'[c])]
           IN  /\ e.image_index = idx[c] + 1
               /\ e.success = (outcome[c].kind = "return")
               /\ e.devices = outcome[c].devices
        /\ idx[c] + 1 < request[c].nfiles =>
              /\ idx'[c] = idx[c] + 1
              /\ attempt'[c] = 0
              /\ trace'[c] = <<>>
              /\ pc'[c] = IF OPENAI_MAX_RETRIES >= 1 THEN "attempt" ELSE "exec_done"
        /\ idx[c] + 1 = request[c].nfiles => pc'[c] = "responded"

C6_BatchIsolation ==
    /\ [](\A c \in Calls : C6_State(c))
    /\ [][\A c \in Calls : C6_Step(c)]_vars

\* a batch of two: the first image failed, the second was retried and gave devices
C6_Witness ==
    \E c \in Calls :
        /\ pc[c] = "responded"
        /\ request[c].nfiles = 2
        /\ ~reply[c].batch_results[1].success
        /\ reply[c].batch_results[2].success
        /\ reply[c].batch_results[2].device_count = 2
        /\ Len(NetsOf(c)) >= 2

(***************************************************************************)
(* C7.  A call ends in one outcome: a returned device list, only after a   *)
(* successful remote attempt, or an HTTPException with status 500, 503 or  *)
(* 504.  After the outcome the call makes no attempt and no sleep and the  *)
(* outcome does not change.  A call without a successful attempt never     *)
(* returns a list.                                                         *)
(***************************************************************************)
C7_State(c) ==
    /\ Terminal(c) <=> outcome[c].kind # "none"
    /\ outcome[c].kind \in {"none", "return", "raise"}
    /\ outcome[c].kind = "return" =>
          /\ trace[c] # <<>>
          /\ IsAttemptEv(trace[c][Len(trace[c])])
          /\ ~Fails(trace[c][Len(trace[c])].net)
    /\ outcome[c].kind = "raise" =>
          /\ outcome[c].status \in {500, 503, 504}
          /\ outcome[c].devices = <<>>

C7_Step(c) ==
    (Terminal(c) /\ idx'[c] = idx[c]) =>
        /\ trace'[c] = trace[c]
        /\ outcome'[c] = outcome[c]
        /\ Terminal(c)'

C7_TerminalOutcome ==
    /\ [](\A c \in Calls : C7_State(c))
    /\ [][\A c \in Calls : C7_Step(c)]_vars

C7_Witness ==
    \E c \in Calls :
        /\ pc[c] = "responded"
        /\ outcome[c].kind = "raise"
        /\ outcome[c].status = 500
        /\ Len(NetsOf(c)) = 2

(***************************************************************************)
(* C8.  As claimed: an attempt answered with an error response (a status   *)
(* that is not a success and not a timeout status, any body text) ends     *)
(* the call at that attempt with the 500 error that carries the message.   *)
(***************************************************************************)
TimeoutStatuses == {408, 504}

ErrorResponse(net) ==
    net.kind = "http" /\ net.status_code # 200 /\ net.status_code \notin TimeoutStatuses

C8_AnyErrorBody ==
    \A c \in Calls : \A p \in 1..Len(trace[c]) :
        (IsAttemptEv(trace[c][p]) /\ ErrorResponse(trace[c][p].net)) =>
            /\ FinalAt(c, p, 500)
            /\ outcome[c].detail =
                  <<"OpenAI Vision API error: ">> \o RaisedBy(trace[c][p].net).msg

(***************************************************************************)
(* C8, amended.  The same for an error response whose body text does not   *)
(* mention a timeout ('timeout' or 'timed out', in any letter case).       *)
(***************************************************************************)
C8_ErrorBodyWithoutTimeout ==
    \A c \in Calls : \A p \in 1..Len(trace[c]) :
        (/\ IsAttemptEv(trace[c][p])
         /\ ErrorResponse(trace[c][p].net)
         /\ ~MentionsTimeout(trace[c][p].net.text)) =>
            /\ FinalAt(c, p, 500)
            /\ outcome[c].detail =
                  <<"OpenAI Vision API error: ">> \o RaisedBy(trace[c][p].net).msg
            /\ Contains(outcome[c].detail, trace[c][p].net.text)

\* a retried call whose second attempt is answered with status 401
C8_Witness ==
    \E c \in Calls :
        /\ Terminal(c)
        /\ Len(trace[c]) = 3
        /\ ErrorResponse(trace[c][3].net)
        /\ ~MentionsTimeout(trace[c][3].net.text)
        /\ outcome[c].status = 500

(***************************************************************************)
(* C9.  A generic error (not of a timeout type, not of a transport type)   *)
(* whose message mentions a timeout is retried like a timeout: on attempt  *)
(* n with n+1 < max_retries the call sleeps 2^n and goes to attempt n+1,   *)
(* and on the last permitted attempt it raises the 504 error.              *)
(***************************************************************************)
C9_TimeoutByMessage ==
    \A c \in Calls : \A p \in 1..Len(trace[c]) :
        (IsAttemptEv(trace[c][p]) /\ GenericTimeout(trace[c][p].net)) =>
            /\ trace[c][p].n + 1 < max_retries[c] => RetriedAt(c, p)
            /\ trace[c][p].n + 1 >= max_retries[c] => FinalAt(c, p, 504)

\* 'timed out' in the message of attempt 1, 'Timeout' in that of the last attempt
C9_Witness ==
    \E c \in Calls :
        /\ Terminal(c)
        /\ max_retries[c] = 2
        /\ Len(NetsOf(c)) = 2
        /\ GenericTimeout(NetsOf(c)[1]) /\ NetsOf(c)[1].kind = "raise"
        /\ GenericTimeout(NetsOf(c)[2]) /\ NetsOf(c)[2].kind = "http"
        /\ SleepsOf(c) = <<1>>
        /\ outcome[c].status = 504

(***************************************************************************)
(* C10.  A failure of a timeout type, which is also of the transport type  *)
(* and of the generic exception type, is handled as a timeout: it is       *)
(* retried with backoff, and on the last permitted attempt the call        *)
(* raises the 504 error, not 503 and not 500.                              *)
(***************************************************************************)
C10_TimeoutFirst ==
    \A c \in Calls : \A p \in 1..Len(trace[c]) :
        (/\ IsAttemptEv(trace[c][p])
         /\ TimeoutType(trace[c][p].net)
         /\ {"RequestException", "Exception"} \subseteq Bases(RaisedBy(trace[c][p].net).type)) =>
            /\ trace[c][p].n + 1 < max_retries[c] => RetriedAt(c, p)
            /\ trace[c][p].n + 1 >= max_retries[c] => FinalAt(c, p, 504)

\* a transport error, then a ConnectTimeout on the last permitted attempt
C10_Witness ==
    \E c \in Calls :
        /\ Terminal(c)
        /\ max_retries[c] = 2
        /\ Len(NetsOf(c)) = 2
        /\ TransportType(NetsOf(c)[1])
        /\ RaisedBy(NetsOf(c)[2]).type = "ConnectTimeout"
        /\ outcome[c].status = 504

(***************************************************************************)
(* C11.  An attempt answered with a success status whose payload is not a  *)
(* well-formed success envelope (body not parseable, or no                 *)
(* choices[0].message.content) is not retried: it is the last event of     *)
(* the call, no sleep follows, and the call raises the 500 error that      *)
(* carries the message.                                                    *)
(***************************************************************************)
MalformedSuccess(net) ==
    net.kind = "http" /\ net.status_code = 200 /\ net.json \in {"invalid", "no_choices"}

C11_MalformedEnvelope ==
    \A c \in Calls : \A p \in 1..Len(trace[c]) :
        (IsAttemptEv(trace[c][p]) /\ MalformedSuccess(trace[c][p].net)) =>
            /\ FinalAt(c, p, 500)
            /\ outcome[c].detail =
                  <<"OpenAI Vision API error: ">> \o RaisedBy(trace[c][p].net).msg

(***************************************************************************)
(* C12.  In a call whose loop runs (max_retries >= 1): the attempt index   *)
(* is within 0..max_retries-1, at most max_retries attempts are made,      *)
(* the sleeps made are at most the attempts begun minus one, and each      *)
(* sleep follows a failed attempt n with n+1 < max_retries and lasts 2^n;  *)
(* no sleep comes before the first attempt or after the last one.  A call  *)
(* whose loop does not run makes no attempt and no sleep.                  *)
(***************************************************************************)
\* attempts begun: those that have ended and the one in flight
AttemptsBegun(c) == Len(NetsOf(c)) + (IF pc[c] = "attempt" THEN 1 ELSE 0)

C12_RetryInvariant ==
    \A c \in Calls :
        LET t == trace[c]
            m == max_retries[c]
        IN  /\ pc[c] \in {"attempt", "sleep"} => attempt[c] \in 0..(m - 1)
            /\ m < 1 => t = <<>>
            /\ AttemptsBegun(c) <= IF m < 1 THEN 0 ELSE m
            /\ Len(SleepsOf(c)) <= IF AttemptsBegun(c) = 0 THEN 0 ELSE AttemptsBegun(c) - 1
            /\ t # <<>> => IsAttemptEv(t[1]) /\ t[1].n = 0
            /\ (Terminal(c) /\ t # <<>>) => IsAttemptEv(t[Len(t)])
            /\ \A p \in 1..Len(t) :
                  /\ IsAttemptEv(t[p]) => t[p].n \in 0..(m - 1)
                  /\ IsSleepEv(t[p]) =>
                        /\ p > 1
                        /\ IsAttemptEv(t[p - 1]) /\ Fails(t[p - 1].net)
                        /\ t[p].n = t[p - 1].n
                        /\ t[p].n + 1 < m
                        /\ t[p].wait = Backoff(t[p].n)
            /\ pc[c] = "sleep" =>
                  /\ t # <<>> /\ IsAttemptEv(t[Len(t)]) /\ Fails(t[Len(t)].net)
                  /\ t[Len(t)].n = attempt[c]
                  /\ attempt[c] + 1 < m
                  /\ pending_wait[c] = Backoff(attempt[c])

\* the second sleep of a call with max_retries = 3 is running
C12_Witness ==
    \E c \in Calls :
        /\ pc[c] = "sleep"
        /\ max_retries[c] = 3
        /\ attempt[c] = 1
        /\ pending_wait[c] = 2
        /\ SleepsOf(c) = <<1>>

(***************************************************************************)
(* C13.  If every remote attempt and every sleep that has begun comes to   *)
(* an end, a call that has entered its loop reaches its end (a returned    *)
(* list or a raised error) whatever the remote attempts give: each step    *)
(* of the loop that does not end the call lowers the number of steps left, *)
(* 2 * (max_retries - attempt), less one while sleeping.                   *)
(***************************************************************************)
InLoop(c) == pc[c] \in {"attempt", "sleep"}

StepsLeft(c) == 2 * (max_retries[c] - attempt[c]) - (IF pc[c] = "sleep" THEN 1 ELSE 0)

C13_Step(c) ==
    (InLoop(c) /\ InLoop(c)' /\ trace'[c] # trace[c] /\ idx'[c] = idx[c]) =>
        StepsLeft(c)' < StepsLeft(c) /\ StepsLeft(c)' >= 1

C13_Terminates ==
    /\ [][\A c \in Calls : C13_Step(c)]_vars
    /\ \A c \in Calls : InLoop(c) ~> Terminal(c)

\* a call that ended after all three permitted attempts
C13_Witness ==
    \E c \in Calls :
        /\ Terminal(c)
        /\ max_retries[c] = 3
        /\ Len(NetsOf(c)) = 3
        /\ outcome[c].kind = "raise"

(***************************************************************************)
(* C14.  With several calls running at once and their attempts and sleeps  *)
(* interleaved in any order, a step changes the loop state of one call     *)
(* only, and the attempt counter, the delays and the outcome of a call     *)
(* are decided by what its own attempts gave: two calls with the same      *)
(* max_retries, the same own attempt outcomes and as many steps done are   *)
(* in the same loop state, whatever the other calls did in between.        *)
(***************************************************************************)
\* the retry state of one call
LoopState(c) ==
    <<max_retries[c], attempt[c], pending_wait[c], response[c], outcome[c], trace[c]>>

Phase(c) == IF Terminal(c) THEN "ended" ELSE pc[c]

C14_OwnOutcomes ==
    \A c, d \in Calls :
        (/\ pc[c] # "idle" /\ pc[d] # "idle"
         /\ max_retries[c] = max_retries[d]
         /\ NetsOf(c) = NetsOf(d)
         /\ Len(trace[c]) = Len(trace[d])) =>
            LoopState(c) = LoopState(d) /\ Phase(c) = Phase(d)

C14_OneCallPerStep ==
    \A c, d \in Calls :
        c # d => (LoopState(c)' = LoopState(c) /\ pc'[c] = pc[c])
                    \/ (LoopState(d)' = LoopState(d) /\ pc'[d] = pc[d])

C14_NoSharedRetryState == []C14_OwnOutcomes /\ [][C14_OneCallPerStep]_vars

\* one call has ended with a success on its second attempt while another, begun
\* before that, is in its second sleep
C14_Witness ==
    \E c, d \in Calls :
        /\ c # d
        /\ Terminal(c) /\ Len(NetsOf(c)) = 2 /\ outcome[c].kind = "return"
        /\ pc[d] = "sleep" /\ attempt[d] = 1 /\ pending_wait[d] = 2

(***************************************************************************)
(* Vocabulary of the parser's properties: the text read as the format      *)
(* describes it (delimiters, segments, lines, field lines), not as the     *)
(* code splits it.                                                         *)
(***************************************************************************)
\* the call of slot c has parsed a response text and returned
Parsed(c) == pc[c] = "exec_done" /\ response[c].is_str /\ outcome[c].kind = "return"

TextOf(c) == response[c].content

DevicesOf(c) == outcome[c].devices

HasToken(t, tok) == \E i \in 1..Len(t) : t[i] = tok

HasSentinel(t) == HasToken(t, "NO_DEVICE_DETECTED")

\* the positions of the start delimiters
StartsAt(t) == {i \in 1..Len(t) : t[i] = "===DEVICE_START==="}

\* the position of the first start delimiter after position i, Len(t) + 1 when none
NextStart(t, i) ==
    LET later == {j \in StartsAt(t) : j > i}
    IN  IF later = {} THEN Len(t) + 1
        ELSE CHOOSE j \in later : \A k \in later : j <= k

\* the segment that follows the start delimiter at position i (i = 0: the text
\* before the first start delimiter)
SegmentAfter(t, i) == SubSeq(t, i + 1, NextStart(t, i) - 1)

\* the text without the start delimiter at i and its segment
WithoutSegment(t, i) == SubSeq(t, 1, i - 1) \o SubSeq(t, NextStart(t, i), Len(t))

RECURSIVE SegmentsFrom(_, _)
SegmentsFrom(t, i) ==
    <<SegmentAfter(t, i)>>
        \o (IF NextStart(t, i) > Len(t) THEN <<>> ELSE SegmentsFrom(t, NextStart(t, i)))

\* the blocks of the text: the segments that follow a start delimiter, in order
BlocksOf(t) == Tail(SegmentsFrom(t, 0))

\* the text before the first start delimiter, then the blocks
LeadingAndBlocks(t) == SegmentsFrom(t, 0)

Complete(seg) == HasToken(seg, "===DEVICE_END===")

\* the part of a complete segment before its first end delimiter
BodyOf(seg) ==
    LET k == CHOOSE i \in 1..Len(seg) :
                 seg[i] = "===DEVICE_END===" /\ \A j \in 1..(i - 1) : seg[j] # "===DEVICE_END==="
    IN  SubSeq(seg, 1, k - 1)

\* the positions at which the lines of a body begin
LineStarts(b) == {i \in 1..Len(b) : i = 1 \/ b[i - 1] = "\n"}

\* the line that begins at position i, without its line break
LineAt(b, i) ==
    LET brk == {j \in i..Len(b) : b[j] = "\n"}
    IN  SubSeq(b, i, IF brk = {} THEN Len(b)
                     ELSE (CHOOSE j \in brk : \A k \in brk : j <= k) - 1)

\* the lines of the body that begin with  NAME:
FieldLines(b, name) ==
    {i \in LineStarts(b) : i < Len(b) /\ b[i] = name /\ b[i + 1] = ":"}

Blank(s) == \A k \in 1..Len(s) : s[k] \in {" ", "\t", "\r", "\n"}

\* v is s without the blanks at its two ends
IsTrimOf(v, s) ==
    \/ Blank(s) /\ v = <<>>
    \/ \E i, j \in 1..Len(s) :
          /\ i <= j /\ ~Blank(<<s[i]>>) /\ ~Blank(<<s[j]>>)
          /\ Blank(SubSeq(s, 1, i - 1)) /\ Blank(SubSeq(s, j + 1, Len(s)))
          /\ v = SubSeq(s, i, j)

\* v is the value the field lines of the body give to the field: the trimmed text
\* after the first colon of the last line  NAME: ...,  the default without one
IsFieldValue(v, b, name, default) ==
    LET at == FieldLines(b, name)
    IN  IF at = {} THEN v = default
        ELSE LET last == CHOOSE i \in at : \A k \in at : k <= i
                 line == LineAt(b, last)
             IN  IsTrimOf(v, SubSeq(line, 3, Len(line)))

\* the segment is complete and a DEVICE_TYPE line gives it a type other than the
\* default
Qualifies(seg) ==
    /\ Complete(seg)
    /\ FieldLines(BodyOf(seg), "DEVICE_TYPE") # {}
    /\ ~IsFieldValue(<<"Unknown">>, BodyOf(seg), "DEVICE_TYPE", <<"Unknown">>)

\* the record is the one the field lines of the segment describe
IsRecordOf(device, seg) ==
    \A i \in 1..Len(FieldPrefixes) :
        IsFieldValue(device[FieldPrefixes[i][2]], BodyOf(seg), FieldPrefixes[i][1],
                     DefaultDevice[FieldPrefixes[i][2]])

\* the devices are the records of the qualifying segments, one each, in order
AreRecordsOf(devices, segs) ==
    LET q == SelectSeq(segs, Qualifies)
    IN  /\ Len(devices) = Len(q)
        /\ \A k \in 1..Len(q) : IsRecordOf(devices[k], q[k])

(***************************************************************************)
(* C15.  A response text that contains NO_DEVICE_DETECTED anywhere gives   *)
(* the empty device list, also when it holds complete blocks with a        *)
(* DEVICE_TYPE line.                                                       *)
(***************************************************************************)
C15_SentinelFirst ==
    \A c \in Calls : (Parsed(c) /\ HasSentinel(TextOf(c))) => DevicesOf(c) = <<>>

\* a text with the sentinel after a qualifying block has been parsed
C15_Witness ==
    \E c \in Calls :
        /\ Parsed(c) /\ HasSentinel(TextOf(c))
        /\ \E k \in 1..Len(BlocksOf(TextOf(c))) :
              /\ Qualifies(BlocksOf(TextOf(c))[k])
              /\ ~HasSentinel(BlocksOf(TextOf(c))[k])
        /\ DevicesOf(c) = <<>>

(***************************************************************************)
(* C16.  A response text without any ===DEVICE_START=== gives the empty    *)
(* device list, whatever else it holds (end delimiters and field lines     *)
(* included).                                                              *)
(***************************************************************************)
C16_NoStartNoDevice ==
    \A c \in Calls : (Parsed(c) /\ StartsAt(TextOf(c)) = {}) => DevicesOf(c) = <<>>

(***************************************************************************)
(* C17.  A segment that follows a ===DEVICE_START=== and has no            *)
(* ===DEVICE_END=== gives no record (there are at most as many records as  *)
(* complete segments), and the text without that segment gives the same    *)
(* records.  C17_DropIncomplete states this for every such segment,        *)
(* C17_DropIncompleteNoSentinel for those without NO_DEVICE_DETECTED.      *)
(***************************************************************************)
CompleteSegments(t) == SelectSeq(LeadingAndBlocks(t), Complete)

Incomplete(t) == {i \in StartsAt(t) : ~Complete(SegmentAfter(t, i))}

C17_DropIncomplete ==
    \A c \in Calls :
        Parsed(c) =>
            /\ Len(DevicesOf(c)) <= Len(CompleteSegments(TextOf(c)))
            /\ \A i \in Incomplete(TextOf(c)) :
                  ParseResponse(WithoutSegment(TextOf(c), i)) = DevicesOf(c)

C17_DropIncompleteNoSentinel ==
    \A c \in Calls :
        Parsed(c) =>
            /\ Len(DevicesOf(c)) <= Len(CompleteSegments(TextOf(c)))
            /\ \A i \in Incomplete(TextOf(c)) :
                  ~HasSentinel(SegmentAfter(TextOf(c), i)) =>
                      ParseResponse(WithoutSegment(TextOf(c), i)) = DevicesOf(c)

\* a text with a qualifying block and, after a start delimiter, field lines
\* without an end delimiter has been parsed
C17_Witness ==
    \E c \in Calls :
        /\ Parsed(c) /\ ~HasSentinel(TextOf(c))
        /\ \E i \in Incomplete(TextOf(c)) :
              HasToken(SegmentAfter(TextOf(c), i), "DEVICE_TYPE")
        /\ Len(DevicesOf(c)) = 1

(***************************************************************************)
(* C18.  A complete block with field lines but without a DEVICE_TYPE line  *)
(* gives no record: every record returned has a device_type other than     *)
(* 'Unknown', and the types returned are those the DEVICE_TYPE lines of    *)
(* the qualifying segments give, in order.                                 *)
(***************************************************************************)
C18_TypeRequired ==
    \A c \in Calls :
        Parsed(c) =>
            LET q == SelectSeq(LeadingAndBlocks(TextOf(c)), Qualifies)
                d == DevicesOf(c)
            IN  /\ \A k \in 1..Len(d) : d[k].device_type # <<"Unknown">>
                /\ Len(d) <= Len(q)
                /\ ~HasSentinel(TextOf(c)) =>
                      /\ Len(d) = Len(q)
                      /\ \A k \in 1..Len(q) :
                            IsFieldValue(d[k].device_type, BodyOf(q[k]), "DEVICE_TYPE",
                                         <<"Unknown">>)

\* a text with a complete block that has a BRAND line and no DEVICE_TYPE line,
\* and a qualifying block, has been parsed
C18_Witness ==
    \E c \in Calls :
        /\ Parsed(c) /\ ~HasSentinel(TextOf(c))
        /\ \E k \in 1..Len(BlocksOf(TextOf(c))) :
              LET seg == BlocksOf(TextOf(c))[k]
              IN  /\ Complete(seg)
                  /\ FieldLines(BodyOf(seg), "BRAND") # {}
                  /\ FieldLines(BodyOf(seg), "DEVICE_TYPE") = {}
        /\ Len(DevicesOf(c)) = 1

(***************************************************************************)
(* C19.  In a text without the sentinel the device list holds one record   *)
(* for each qualifying block, in the order of the blocks' start            *)
(* delimiters, blocks with the same field values included: as many         *)
(* records as qualifying blocks.                                           *)
(***************************************************************************)
C19_OnePerBlock ==
    \A c \in Calls :
        (Parsed(c) /\ ~HasSentinel(TextOf(c))) =>
            AreRecordsOf(DevicesOf(c), BlocksOf(TextOf(c)))

(***************************************************************************)
(* C20.  In every record returned, each of the nine fields has the         *)
(* trimmed text after the first colon of the block's line that begins      *)
(* with the field's prefix (the last such line), later colons included;    *)
(* a field without such a line keeps its default, whatever other lines     *)
(* the block has and whatever follows ===DEVICE_END=== in the segment.     *)
(***************************************************************************)
C20_FieldLines ==
    \A c \in Calls :
        (Parsed(c) /\ ~HasSentinel(TextOf(c))) =>
            AreRecordsOf(DevicesOf(c), LeadingAndBlocks(TextOf(c)))

\* a block with a BRAND value that holds a colon and has blanks around it, and
\* with text after its end delimiter, has given a record
C20_Witness ==
    \E c \in Calls :
        /\ Parsed(c)
        /\ Len(DevicesOf(c)) = 1
        /\ DevicesOf(c)[1].brand = <<"Cisco", ":", "X">>
        /\ DevicesOf(c)[1].model = <<"Unknown">>
        /\ \E k \in 1..Len(BlocksOf(TextOf(c))) :
              LET seg == BlocksOf(TextOf(c))[k]
              IN  /\ Qualifies(seg)
                  /\ seg[Len(seg) - 1] # "===DEVICE_END==="

(***************************************************************************)
(* C21.  Every returned record has exactly the nine fields, and a field    *)
(* for which its block has no line with the field's prefix holds its       *)
(* default: 'Unknown' for device_type, brand, model, serial, port_count    *)
(* and confidence, the empty string for text_on_device, features and       *)
(* description.                                                            *)
(***************************************************************************)
RecordFields ==
    {"device_type", "brand", "model", "serial", "port_count", "confidence",
     "text_on_device", "features", "description"}

DefaultOf(field) ==
    IF field \in {"text_on_device", "features", "description"} THEN <<>>
    ELSE <<"Unknown">>

C21_Defaults ==
    \A c \in Calls :
        Parsed(c) =>
            LET q == SelectSeq(LeadingAndBlocks(TextOf(c)), Qualifies)
                d == DevicesOf(c)
            IN  /\ \A k \in 1..Len(d) : DOMAIN d[k] = RecordFields
                /\ ~HasSentinel(TextOf(c)) =>
                      /\ Len(d) = Len(q)
                      /\ \A k \in 1..Len(q) : \A i \in 1..Len(FieldPrefixes) :
                            FieldLines(BodyOf(q[k]), FieldPrefixes[i][1]) = {} =>
                                d[k][FieldPrefixes[i][2]] = DefaultOf(FieldPrefixes[i][2])

\* a block with only a DEVICE_TYPE line and a BRAND line has given a record
C21_Witness ==
    \E c \in Calls :
        /\ Parsed(c)
        /\ Len(DevicesOf(c)) = 1
        /\ DevicesOf(c)[1].device_type = <<"Router">>
        /\ DevicesOf(c)[1].brand = <<"Cisco", ":", "X">>
        /\ DevicesOf(c)[1].serial = <<"Unknown">>
        /\ DevicesOf(c)[1].description = <<>>

(***************************************************************************)
(* C24.  In the reply of /detect and of /v1/detect the OCR summary is      *)
(* present exactly when enable_ocr is set and the call returned a          *)
(* non-empty device list, and then its brand, model, serial and            *)
(* port_count are those of the first device of the list.                   *)
(***************************************************************************)
C24_OcrFromFirstDevice ==
    \A c \in Calls :
        (pc[c] = "responded" /\ request[c].endpoint \in {"/detect", "/v1/detect"}) =>
            LET o == reply[c].ocr_data
                d == outcome[c].devices
            IN  /\ o.present <=> (request[c].enable_ocr /\ outcome[c].kind = "return"
                                                        /\ d # <<>>)
                /\ o.present =>
                      /\ reply[c].devices = d
                      /\ o.brand = d[1].brand /\ o.model = d[1].model
                      /\ o.serial = d[1].serial /\ o.port_count = d[1].port_count
                /\ ~o.present => o = NoOcr

\* a reply with the summary of the first of two devices that differ in their model
C24_Witness ==
    \E c \in Calls :
        /\ pc[c] = "responded"
        /\ request[c].endpoint = "/v1/detect"
        /\ request[c].enable_ocr
        /\ Len(reply[c].devices) = 2
        /\ reply[c].ocr_data.present
        /\ reply[c].ocr_data.model = reply[c].devices[1].model
        /\ reply[c].devices[1].model # reply[c].devices[2].model

(***************************************************************************)
(* C26.  When every permitted attempt of a call failed with a retryable    *)
(* condition, the status raised is decided by the last attempt alone: 504  *)
(* when it is a timeout by type or a generic error whose message mentions  *)
(* a timeout, 503 when it is a transport error that is not a timeout,      *)
(* whatever the classes of the earlier attempts.                           *)
(***************************************************************************)
C26_LastFailureDecides ==
    \A c \in Calls :
        LET nets == NetsOf(c)
            n    == Len(nets)
        IN  (/\ Terminal(c)
             /\ n >= 1 /\ n = max_retries[c]
             /\ \A i \in 1..n : Retryable(nets[i])) =>
                /\ outcome[c].kind = "raise"
                /\ (TimeoutType(nets[n]) \/ GenericTimeout(nets[n])) =>
                       outcome[c].status = 504
                /\ TransportType(nets[n]) => outcome[c].status = 503

\* a call whose attempts failed with a transport error, then a timeout by type, then
\* a timeout by message
C26_Witness ==
    \E c \in Calls :
        /\ Terminal(c)
        /\ Len(NetsOf(c)) = 3 /\ max_retries[c] = 3
        /\ TransportType(NetsOf(c)[1])
        /\ TimeoutType(NetsOf(c)[2])
        /\ GenericTimeout(NetsOf(c)[3])
        /\ outcome[c].status = 504

(***************************************************************************)
(* C27.  A call that ends with an error has made at least one remote       *)
(* attempt, whatever max_retries is (zero and negative values included).   *)
(***************************************************************************)
C27_AttemptBeforeFailure ==
    \A c \in Calls :
        (Terminal(c) /\ outcome[c].kind = "raise") => Len(NetsOf(c)) >= 1

(***************************************************************************)
(* C22.  The code after the loop returns a list for every response text,   *)
(* it never raises; a text in which no segment qualifies, or with the      *)
(* sentinel, gives the empty list; and the handler replies to an empty     *)
(* list with a success (status 200, success true, no device, no OCR        *)
(* summary), not with an error.                                            *)
(***************************************************************************)
NothingRecognized(t) ==
    HasSentinel(t) \/ SelectSeq(LeadingAndBlocks(t), Qualifies) = <<>>

C22_EmptyIsSuccess ==
    \A c \in Calls :
        (c \in active /\ response[c].is_str) =>
            /\ Terminal(c) => outcome[c].kind = "return"
            /\ (Terminal(c) /\ NothingRecognized(TextOf(c))) => DevicesOf(c) = <<>>
            /\ (pc[c] = "responded" /\ DevicesOf(c) = <<>>) =>
                  /\ reply[c].status = 200 /\ reply[c].success
                  /\ reply[c].devices = <<>>
                  /\ ~reply[c].ocr_data.present

\* /detect has replied to a text with field lines and an end delimiter, but no
\* DEVICE_TYPE line
C22_Witness ==
    \E c \in Calls :
        /\ pc[c] = "responded"
        /\ request[c].endpoint = "/detect" /\ request[c].enable_ocr
        /\ ~HasSentinel(TextOf(c))
        /\ HasToken(TextOf(c), "BRAND") /\ HasToken(TextOf(c), "===DEVICE_END===")
        /\ ~HasToken(TextOf(c), "DEVICE_TYPE")
        /\ reply[c].success /\ reply[c].devices = <<>>

(***************************************************************************)
(* C23.  Calls that parse the same text return equal device lists, in      *)
(* whatever order they run and whatever the other calls have done, and a   *)
(* parsing step changes nothing but the outcome and the position of the    *)
(* call that takes it.                                                     *)
(***************************************************************************)
C23_SameTextSameDevices ==
    \A c, d \in Calls :
        (Parsed(c) /\ Parsed(d) /\ TextOf(c) = TextOf(d)) => DevicesOf(c) = DevicesOf(d)

C23_ParseChangesNothingElse ==
    \A c \in Calls :
        (pc[c] = "parse" /\ pc'[c] # "parse") =>
            /\ outcome'[c].kind = "return"
            /\ UNCHANGED <<OPENAI_MAX_RETRIES, active, request, idx, results, reply,
                           max_retries, attempt, pending_wait, response, trace>>
            /\ UNCHANGED store_vars
            /\ \A d \in Calls \ {c} : outcome'[d] = outcome[d] /\ pc'[d] = pc[d]

HasTypeLine(seg) == Complete(seg) /\ FieldLines(BodyOf(seg), "DEVICE_TYPE") # {}

C28_AnyTypeValue ==
    \A c \in Calls :
        (Parsed(c) /\ ~HasSentinel(TextOf(c))) =>
            Len(DevicesOf(c)) >= Len(SelectSeq(BlocksOf(TextOf(c)), HasTypeLine))

(***************************************************************************)
(* C29.  No two customers of the key store have the same customer_id.      *)
(***************************************************************************)
C29_UniqueCustomerIds ==
    \A k1, k2 \in KeyUniverse :
        (customers[k1].present /\ customers[k2].present /\ k1 # k2) =>
            customers[k1].customer_id # customers[k2].customer_id

(***************************************************************************)
(* C30.  A verification is accepted exactly when its header names a key    *)
(* that is stored and active; an accepted one adds one to the              *)
(* request_count of that key and changes no other entry; a rejected one    *)
(* (no header, unknown, deleted or inactive key) has status 401 and        *)
(* leaves the store as it is.  So the request_count of every stored        *)
(* customer is the number of accepted verifications of its key.            *)
(***************************************************************************)
\* the key a header asks for: the header without 'Bearer ' and blanks
RequestedKeys(header) ==
    {header[i] : i \in {j \in 1..Len(header) : header[j] \notin {"Bearer ", " "}}}

StoredAndActive(k) == customers[k].present /\ customers[k].active

\* the step is a verification: it gave a new result, or it counted a request
IsVerification == auth' # auth \/ accepted' # accepted

C30_CountsMatch ==
    \A k \in KeyUniverse : customers[k].present => customers[k].request_count = accepted[k]

C30_VerifyStep ==
    IsVerification =>
        /\ auth'.status \in {200, 401}
        /\ auth'.status = 200 <=>
              \E k \in RequestedKeys(auth'.header) : StoredAndActive(k)
        /\ auth'.status = 200 =>
              /\ RequestedKeys(auth'.header) = {auth'.api_key}
              /\ customers'[auth'.api_key] =
                    [customers[auth'.api_key] EXCEPT !.request_count = @ + 1]
              /\ \A k \in KeyUniverse \ {auth'.api_key} : customers'[k] = customers[k]
              /\ accepted'[auth'.api_key] = accepted[auth'.api_key] + 1
        /\ auth'.status = 401 => customers' = customers /\ accepted' = accepted

C30_VerifyCountsAccepted == []C30_CountsMatch /\ [][C30_VerifyStep]_vars

\* a key has been accepted twice, after a deleted key and the inactive key were refused
C30_Witness ==
    \E k \in KeyUniverse :
        /\ customers[k].present /\ customers[k].request_count = 2
        /\ accepted[k] = 2
        /\ auth.status = 401
        /\ customers[KeyName(0)].present /\ ~customers[KeyName(0)].active
        /\ \E d \in KeyUniverse : d # "" /\ d # KeyName(0) /\ ~customers[d].present
                                   /\ d \in RequestedKeys(auth.header)

(***************************************************************************)
(* C25.  A save that succeeds leaves no cached model, so that the load     *)
(* after it takes the weights just written (or fails), never the model     *)
(* cached before: a cached model is always the one of the weights on disk  *)
(* when these are intact.  A load with a cached model returns it and       *)
(* loads nothing.  A save that fails raises 500 and leaves the cached      *)
(* model as it is.                                                         *)
(***************************************************************************)
C25_CacheIsCurrent ==
    (~yolo_model.is_none /\ best_pt.exists /\ best_pt.intact) =>
        yolo_model = Model("project", best_pt.version)

C25_CacheStep ==
    /\ (cache_op'.op = "save" /\ cache_op'.status = 200) =>
          /\ yolo_model'.is_none
          /\ best_pt'.intact /\ best_pt'.version = best_pt.version + 1
    /\ (cache_op'.op = "save" /\ cache_op'.status # 200) =>
          /\ yolo_model' = yolo_model
          /\ best_pt' # best_pt => (~best_pt'.intact /\ cache_op'.status = 500)
    /\ (cache_op'.op = "load" /\ ~yolo_model.is_none) =>
          yolo_model' = yolo_model /\ cache_op'.returned = yolo_model
    /\ (cache_op'.op = "load" /\ yolo_model.is_none) =>
          /\ cache_op'.returned = yolo_model'
          /\ (best_pt.exists /\ ~yolo_model'.is_none) =>
                best_pt.intact /\ yolo_model' = Model("project", best_pt.version)
    /\ cache_op'.op = "load" => best_pt' = best_pt

C25_SaveResetsCache == []C25_CacheIsCurrent /\ [][C25_CacheStep]_vars

\* a load has given the weights of the second upload
C25_Witness ==
    /\ cache_op.op = "load"
    /\ cache_op.returned = Model("project", 2)
    /\ yolo_model = Model("project", 2)

=============================================================================
